---- MODULE Spec2Model ----
(***************************************************************************)
(* Model of src/args/settings.rs: the ArgSettings enumeration, its         *)
(* FromStr decoder, and the ArgFlags registry, a u16 bit set (Flags) with  *)
(* one constant per setting.                                               *)
(***************************************************************************)
EXTENDS Integers, Sequences, FiniteSets, TLC

VARIABLES
    flags,      \* ArgFlags.0: the u16 bits of the registry in hand
    op,         \* the last call on the registry: <<method>> or <<method, setting>>
    ret,        \* what the last call returned: <<>> for unit, <<b>> for a bool
    lastw,      \* per setting, the most recent of set/unset since new ("none" if neither)
    n,          \* number of calls made since construction
    input,      \* the &str handed to ArgSettings::from_str, as its bytes
    result      \* what from_str returned for input ([kind |-> "pending"] before the call)

vars == <<flags, op, ret, lastw, n, input, result>>

----------------------------------------------------------------------------
(* Bounds of the model *)

\* calls made on one registry in the history-tracking specification
MaxOps == 3
\* letters of an identifier written in upper case in a decoder input
MaxUpper == 2

----------------------------------------------------------------------------
(* u16 arithmetic of the Flags bit set *)

\* struct Flags: u16
Width == 16

RECURSIVE Pow2(_)
Pow2(k) == IF k = 0 THEN 1 ELSE 2 * Pow2(k - 1)

\* u16::MAX + 1
Modulus == Pow2(Width)

\* `a << k` on a u16
Shl(a, k) == (a * Pow2(k)) % Modulus

\* `a & b` of two bytes, bit by bit from the lowest
RECURSIVE BitAndBits(_, _)
BitAndBits(a, b) ==
    IF a = 0 \/ b = 0 THEN 0
    ELSE (a % 2) * (b % 2) + 2 * BitAndBits(a \div 2, b \div 2)

AndByte == [a \in 0..255 |-> [b \in 0..255 |-> BitAndBits(a, b)]]

\* `a & b` on the u16 bits of a Flags value: the low bytes and the high bytes
BitAnd(a, b) ==
    AndByte[a % 256][b % 256] + 256 * AndByte[a \div 256][b \div 256]

\* `a | b` and `!a`
BitOr(a, b) == a + b - BitAnd(a, b)
BitNot(a) == (Modulus - 1) - a

----------------------------------------------------------------------------
(* bitflags! { struct Flags: u16 { ... } } *)

\* REQUIRED numbered from nothing, and GLOBAL given the shift of EMPTY_VALS
REQUIRED_zero    == Shl(0, 0)
GLOBAL_dup       == Shl(1, 2)

REQUIRED         == 1
MULTIPLE         == Shl(1, 1)
EMPTY_VALS       == Shl(1, 2)
GLOBAL           == Shl(1, 3)
HIDDEN           == Shl(1, 4)
TAKES_VAL        == Shl(1, 5)
USE_DELIM        == Shl(1, 6)
NEXT_LINE_HELP   == Shl(1, 7)
R_UNLESS_ALL     == Shl(1, 8)
REQ_DELIM        == Shl(1, 9)
DELIM_NOT_SET    == Shl(1, 10)
HIDE_POS_VALS    == Shl(1, 11)
ALLOW_TAC_VALS   == Shl(1, 12)
REQUIRE_EQUALS   == Shl(1, 13)
LAST             == Shl(1, 14)
HIDE_DEFAULT_VAL == Shl(1, 15)

\* The constants of Flags, in declaration order
Flags ==
    << REQUIRED, MULTIPLE, EMPTY_VALS, GLOBAL, HIDDEN, TAKES_VAL, USE_DELIM,
       NEXT_LINE_HELP, R_UNLESS_ALL, REQ_DELIM, DELIM_NOT_SET, HIDE_POS_VALS,
       ALLOW_TAC_VALS, REQUIRE_EQUALS, LAST, HIDE_DEFAULT_VAL >>

\* `bits ^ other` where `bits | other` or `bits & !other` belongs, and
\* `bits & other`, the `!` left out
insert_toggles(bits, other) == BitOr(bits, other) - BitAnd(bits, other)
remove_toggles(bits, other) == BitOr(bits, other) - BitAnd(bits, other)
remove_without_not(bits, other) == BitAnd(bits, other)

\* Flags::insert, Flags::remove, Flags::contains, as bitflags! generates them
insert(bits, other) == BitOr(bits, other)
remove(bits, other) == BitAnd(bits, BitNot(other))
contains(bits, other) == BitAnd(bits, other) = other

----------------------------------------------------------------------------
(* pub enum ArgSettings, in declaration order *)

ArgSettings ==
    << "Required", "Multiple", "EmptyValues", "Global", "Hidden", "TakesValue",
       "UseValueDelimiter", "NextLineHelp", "RequireDelimiter",
       "HidePossibleValues", "AllowLeadingHyphen", "RequireEquals", "Last",
       "HideDefaultValue", "RequiredUnlessAll", "ValueDelimiterNotSet" >>

Settings == { ArgSettings[i] : i \in DOMAIN ArgSettings }

----------------------------------------------------------------------------
(* impl ArgFlags *)

\* The rows with RequireDelimiter given the constant of the row above it
SettingsTable_swapped ==
    << <<"Required", REQUIRED>>,
       <<"Multiple", MULTIPLE>>,
       <<"EmptyValues", EMPTY_VALS>>,
       <<"Global", GLOBAL>>,
       <<"Hidden", HIDDEN>>,
       <<"TakesValue", TAKES_VAL>>,
       <<"UseValueDelimiter", USE_DELIM>>,
       <<"NextLineHelp", NEXT_LINE_HELP>>,
       <<"RequiredUnlessAll", R_UNLESS_ALL>>,
       <<"RequireDelimiter", R_UNLESS_ALL>>,
       <<"ValueDelimiterNotSet", DELIM_NOT_SET>>,
       <<"HidePossibleValues", HIDE_POS_VALS>>,
       <<"AllowLeadingHyphen", ALLOW_TAC_VALS>>,
       <<"RequireEquals", REQUIRE_EQUALS>>,
       <<"Last", LAST>>,
       <<"HideDefaultValue", HIDE_DEFAULT_VAL>> >>

\* The `variant => constant` rows handed to impl_settings!, in source order
SettingsTable ==
    << <<"Required", REQUIRED>>,
       <<"Multiple", MULTIPLE>>,
       <<"EmptyValues", EMPTY_VALS>>,
       <<"Global", GLOBAL>>,
       <<"Hidden", HIDDEN>>,
       <<"TakesValue", TAKES_VAL>>,
       <<"UseValueDelimiter", USE_DELIM>>,
       <<"NextLineHelp", NEXT_LINE_HELP>>,
       <<"RequiredUnlessAll", R_UNLESS_ALL>>,
       <<"RequireDelimiter", REQ_DELIM>>,
       <<"ValueDelimiterNotSet", DELIM_NOT_SET>>,
       <<"HidePossibleValues", HIDE_POS_VALS>>,
       <<"AllowLeadingHyphen", ALLOW_TAC_VALS>>,
       <<"RequireEquals", REQUIRE_EQUALS>>,
       <<"Last", LAST>>,
       <<"HideDefaultValue", HIDE_DEFAULT_VAL>> >>

\* The constant of the arm `ArgSettings::s => ...` that a `match s` over the
\* rows takes: the first row naming s
MatchArm ==
    [ s \in Settings |->
        LET rows == { i \in DOMAIN SettingsTable : SettingsTable[i][1] = s }
            first == CHOOSE i \in rows : \A j \in rows : i <= j
        IN  SettingsTable[first][2] ]

FlagOf(s) == MatchArm[s]

\* ArgFlags::set, ArgFlags::unset, ArgFlags::is_set
Set(bits, s) == insert(bits, FlagOf(s))
Unset(bits, s) == remove(bits, FlagOf(s))
IsSet(bits, s) == contains(bits, FlagOf(s))

\* The default without DELIM_NOT_SET
ArgFlags_default_empty_only == EMPTY_VALS

\* impl Default for ArgFlags
ArgFlags_default == BitOr(EMPTY_VALS, DELIM_NOT_SET)

\* ArgFlags::new
ArgFlags_new == ArgFlags_default

\* The methods the impl block gives ArgFlags
ArgFlagsMethods == {"new", "set", "unset", "is_set"}

----------------------------------------------------------------------------
(* Strings: a &str is the sequence of its bytes *)

\* The ASCII letters, A at byte 65 and a at byte 97
UpperCase ==
    << "A", "B", "C", "D", "E", "F", "G", "H", "I", "J", "K", "L", "M",
       "N", "O", "P", "Q", "R", "S", "T", "U", "V", "W", "X", "Y", "Z" >>
LowerCase ==
    << "a", "b", "c", "d", "e", "f", "g", "h", "i", "j", "k", "l", "m",
       "n", "o", "p", "q", "r", "s", "t", "u", "v", "w", "x", "y", "z" >>

\* The byte of an ASCII character of the literals below
Ord(c) ==
    CASE c = " " -> 32
      [] c = "," -> 44
      [] c = "_" -> 95
      [] \E i \in DOMAIN UpperCase : UpperCase[i] = c ->
            64 + (CHOOSE i \in DOMAIN UpperCase : UpperCase[i] = c)
      [] \E i \in DOMAIN LowerCase : LowerCase[i] = c ->
            96 + (CHOOSE i \in DOMAIN LowerCase : LowerCase[i] = c)

\* The bytes of a string literal, given character by character
Lit(cs) == [i \in DOMAIN cs |-> Ord(cs[i])]

\* u8::to_ascii_lowercase: the bytes of A..Z go to those of a..z, every other
\* byte is kept
u8_to_ascii_lowercase(b) == IF 65 <= b /\ b <= 90 THEN b + 32 ELSE b

\* Lower-casing of the first byte alone
to_ascii_lowercase_first_only(s) ==
    [i \in DOMAIN s |-> IF i = 1 THEN u8_to_ascii_lowercase(s[i]) ELSE s[i]]

\* str::to_ascii_lowercase
to_ascii_lowercase(s) == [i \in DOMAIN s |-> u8_to_ascii_lowercase(s[i])]

----------------------------------------------------------------------------
(* impl FromStr for ArgSettings *)

\* The arms without the last one, "hidedefaultvalue"
FromStrArms_no_hidedefaultvalue ==
    <<
       << Lit(<<"r", "e", "q", "u", "i", "r", "e", "d">>),
          "Required" >>,
       << Lit(<<"m", "u", "l", "t", "i", "p", "l", "e">>),
          "Multiple" >>,
       << Lit(<<"g", "l", "o", "b", "a", "l">>),
          "Global" >>,
       << Lit(<<"e", "m", "p", "t", "y", "v", "a", "l", "u", "e",
               "s">>),
          "EmptyValues" >>,
       << Lit(<<"h", "i", "d", "d", "e", "n">>),
          "Hidden" >>,
       << Lit(<<"t", "a", "k", "e", "s", "v", "a", "l", "u", "e">>),
          "TakesValue" >>,
       << Lit(<<"u", "s", "e", "v", "a", "l", "u", "e", "d", "e", "l",
               "i", "m", "i", "t", "e", "r">>),
          "UseValueDelimiter" >>,
       << Lit(<<"n", "e", "x", "t", "l", "i", "n", "e", "h", "e", "l",
               "p">>),
          "NextLineHelp" >>,
       << Lit(<<"r", "e", "q", "u", "i", "r", "e", "d", "u", "n", "l",
               "e", "s", "s", "a", "l", "l">>),
          "RequiredUnlessAll" >>,
       << Lit(<<"r", "e", "q", "u", "i", "r", "e", "d", "e", "l", "i",
               "m", "i", "t", "e", "r">>),
          "RequireDelimiter" >>,
       << Lit(<<"v", "a", "l", "u", "e", "d", "e", "l", "i", "m", "i",
               "t", "e", "r", "n", "o", "t", "s", "e", "t">>),
          "ValueDelimiterNotSet" >>,
       << Lit(<<"h", "i", "d", "e", "p", "o", "s", "s", "i", "b", "l",
               "e", "v", "a", "l", "u", "e", "s">>),
          "HidePossibleValues" >>,
       << Lit(<<"a", "l", "l", "o", "w", "l", "e", "a", "d", "i", "n",
               "g", "h", "y", "p", "h", "e", "n">>),
          "AllowLeadingHyphen" >>,
       << Lit(<<"r", "e", "q", "u", "i", "r", "e", "e", "q", "u", "a",
               "l", "s">>),
          "RequireEquals" >>,
       << Lit(<<"l", "a", "s", "t">>),
          "Last" >>
    >>

\* The arms `"pattern" => Ok(ArgSettings::Variant)` of the match, in source order
FromStrArms ==
    <<
       << Lit(<<"r", "e", "q", "u", "i", "r", "e", "d">>),
          "Required" >>,
       << Lit(<<"m", "u", "l", "t", "i", "p", "l", "e">>),
          "Multiple" >>,
       << Lit(<<"g", "l", "o", "b", "a", "l">>),
          "Global" >>,
       << Lit(<<"e", "m", "p", "t", "y", "v", "a", "l", "u", "e",
               "s">>),
          "EmptyValues" >>,
       << Lit(<<"h", "i", "d", "d", "e", "n">>),
          "Hidden" >>,
       << Lit(<<"t", "a", "k", "e", "s", "v", "a", "l", "u", "e">>),
          "TakesValue" >>,
       << Lit(<<"u", "s", "e", "v", "a", "l", "u", "e", "d", "e", "l",
               "i", "m", "i", "t", "e", "r">>),
          "UseValueDelimiter" >>,
       << Lit(<<"n", "e", "x", "t", "l", "i", "n", "e", "h", "e", "l",
               "p">>),
          "NextLineHelp" >>,
       << Lit(<<"r", "e", "q", "u", "i", "r", "e", "d", "u", "n", "l",
               "e", "s", "s", "a", "l", "l">>),
          "RequiredUnlessAll" >>,
       << Lit(<<"r", "e", "q", "u", "i", "r", "e", "d", "e", "l", "i",
               "m", "i", "t", "e", "r">>),
          "RequireDelimiter" >>,
       << Lit(<<"v", "a", "l", "u", "e", "d", "e", "l", "i", "m", "i",
               "t", "e", "r", "n", "o", "t", "s", "e", "t">>),
          "ValueDelimiterNotSet" >>,
       << Lit(<<"h", "i", "d", "e", "p", "o", "s", "s", "i", "b", "l",
               "e", "v", "a", "l", "u", "e", "s">>),
          "HidePossibleValues" >>,
       << Lit(<<"a", "l", "l", "o", "w", "l", "e", "a", "d", "i", "n",
               "g", "h", "y", "p", "h", "e", "n">>),
          "AllowLeadingHyphen" >>,
       << Lit(<<"r", "e", "q", "u", "i", "r", "e", "e", "q", "u", "a",
               "l", "s">>),
          "RequireEquals" >>,
       << Lit(<<"l", "a", "s", "t">>),
          "Last" >>,
       << Lit(<<"h", "i", "d", "e", "d", "e", "f", "a", "u", "l", "t",
               "v", "a", "l", "u", "e">>),
          "HideDefaultValue" >>
    >>

\* The Err of the `_` arm
UnknownArgSetting ==
    Lit(<<"u", "n", "k", "n", "o", "w", "n", " ", "A", "r", "g", "S", "e",
    "t", "t", "i", "n", "g", ",", " ", "c", "a", "n", "n", "o", "t", " ",
    "c", "o", "n", "v", "e", "r", "t", " ", "f", "r", "o", "m", " ", "s",
    "t", "r">>)

Ok(v) == [kind |-> "Ok", val |-> v]
Err(e) == [kind |-> "Err", err |-> e]

\* from_str with an `_` arm that hands the input back as the error
from_str_echoes_input(s) ==
    LET l == to_ascii_lowercase(s)
        hits == { i \in DOMAIN FromStrArms : FromStrArms[i][1] = l }
    IN  IF hits = {} THEN Err(s)
        ELSE Ok(FromStrArms[CHOOSE i \in hits : \A j \in hits : i <= j][2])

\* ArgSettings::from_str: the first arm whose pattern equals the lower-cased
\* input, else the `_` arm
from_str(s) ==
    LET l == to_ascii_lowercase(s)
        hits == { i \in DOMAIN FromStrArms : FromStrArms[i][1] = l }
    IN  IF hits = {} THEN Err(UnknownArgSetting)
        ELSE Ok(FromStrArms[CHOOSE i \in hits : \A j \in hits : i <= j][2])

----------------------------------------------------------------------------
(* The registry as a state machine *)

NoWrites == [s \in Settings |-> "none"]
Pending == [kind |-> "pending"]

\* State after `ArgFlags::new()`
Init ==
    /\ flags = ArgFlags_new
    /\ op = <<"new">>
    /\ ret = <<>>
    /\ lastw = NoWrites
    /\ n = 0
    /\ input = <<>>
    /\ result = Pending

\* `ArgFlags::new()`: a new registry replaces the one in hand
New ==
    /\ n < MaxOps
    /\ flags' = ArgFlags_new
    /\ op' = <<"new">>
    /\ ret' = <<>>
    /\ lastw' = NoWrites
    /\ n' = n + 1
    /\ UNCHANGED <<input, result>>

\* `flags.set(s)`
SetCall(s) ==
    /\ n < MaxOps
    /\ flags' = Set(flags, s)
    /\ op' = <<"set", s>>
    /\ ret' = <<>>
    /\ lastw' = [lastw EXCEPT ![s] = "set"]
    /\ n' = n + 1
    /\ UNCHANGED <<input, result>>

\* `flags.unset(s)`
UnsetCall(s) ==
    /\ n < MaxOps
    /\ flags' = Unset(flags, s)
    /\ op' = <<"unset", s>>
    /\ ret' = <<>>
    /\ lastw' = [lastw EXCEPT ![s] = "unset"]
    /\ n' = n + 1
    /\ UNCHANGED <<input, result>>

\* `flags.is_set(s)`, which takes &self
IsSetCall(s) ==
    /\ n < MaxOps
    /\ flags' = flags
    /\ op' = <<"is_set", s>>
    /\ ret' = << IsSet(flags, s) >>
    /\ n' = n + 1
    /\ UNCHANGED <<lastw, input, result>>

Next ==
    \/ New
    \/ \E s \in Settings : SetCall(s)
    \/ \E s \in Settings : UnsetCall(s)
    \/ \E s \in Settings : IsSetCall(s)

\* A registry under at most MaxOps calls, with the calls recorded
Spec == Init /\ [][Next]_vars

----------------------------------------------------------------------------
(* The registry under any number of set/unset calls, history not recorded *)

InitAll ==
    /\ flags = ArgFlags_new
    /\ op = <<>>
    /\ ret = <<>>
    /\ lastw = NoWrites
    /\ n = 0
    /\ input = <<>>
    /\ result = Pending

SetAny(s) ==
    /\ flags' = Set(flags, s)
    /\ UNCHANGED <<op, ret, lastw, n, input, result>>

UnsetAny(s) ==
    /\ flags' = Unset(flags, s)
    /\ UNCHANGED <<op, ret, lastw, n, input, result>>

NextAll ==
    \/ \E s \in Settings : SetAny(s)
    \/ \E s \in Settings : UnsetAny(s)

SpecAll == InitAll /\ [][NextAll]_vars

----------------------------------------------------------------------------
(* The decoder applied to one input *)

\* The sixteen canonical identifiers, each with the setting of that name
CanonicalIdentifiers ==
    <<
       << Lit(<<"r", "e", "q", "u", "i", "r", "e", "d">>),
          "Required" >>,
       << Lit(<<"m", "u", "l", "t", "i", "p", "l", "e">>),
          "Multiple" >>,
       << Lit(<<"e", "m", "p", "t", "y", "v", "a", "l", "u", "e",
               "s">>),
          "EmptyValues" >>,
       << Lit(<<"g", "l", "o", "b", "a", "l">>),
          "Global" >>,
       << Lit(<<"h", "i", "d", "d", "e", "n">>),
          "Hidden" >>,
       << Lit(<<"t", "a", "k", "e", "s", "v", "a", "l", "u", "e">>),
          "TakesValue" >>,
       << Lit(<<"u", "s", "e", "v", "a", "l", "u", "e", "d", "e", "l",
               "i", "m", "i", "t", "e", "r">>),
          "UseValueDelimiter" >>,
       << Lit(<<"n", "e", "x", "t", "l", "i", "n", "e", "h", "e", "l",
               "p">>),
          "NextLineHelp" >>,
       << Lit(<<"r", "e", "q", "u", "i", "r", "e", "d", "u", "n", "l",
               "e", "s", "s", "a", "l", "l">>),
          "RequiredUnlessAll" >>,
       << Lit(<<"r", "e", "q", "u", "i", "r", "e", "d", "e", "l", "i",
               "m", "i", "t", "e", "r">>),
          "RequireDelimiter" >>,
       << Lit(<<"v", "a", "l", "u", "e", "d", "e", "l", "i", "m", "i",
               "t", "e", "r", "n", "o", "t", "s", "e", "t">>),
          "ValueDelimiterNotSet" >>,
       << Lit(<<"h", "i", "d", "e", "p", "o", "s", "s", "i", "b", "l",
               "e", "v", "a", "l", "u", "e", "s">>),
          "HidePossibleValues" >>,
       << Lit(<<"a", "l", "l", "o", "w", "l", "e", "a", "d", "i", "n",
               "g", "h", "y", "p", "h", "e", "n">>),
          "AllowLeadingHyphen" >>,
       << Lit(<<"r", "e", "q", "u", "i", "r", "e", "e", "q", "u", "a",
               "l", "s">>),
          "RequireEquals" >>,
       << Lit(<<"l", "a", "s", "t">>),
          "Last" >>,
       << Lit(<<"h", "i", "d", "e", "d", "e", "f", "a", "u", "l", "t",
               "v", "a", "l", "u", "e">>),
          "HideDefaultValue" >>
    >>

Identifiers == { CanonicalIdentifiers[i][1] : i \in DOMAIN CanonicalIdentifiers }

\* id (lower case) with the letters at the positions U in upper case
UpperAt(id, U) == [i \in DOMAIN id |-> IF i \in U THEN id[i] - 32 ELSE id[i]]

\* The subsets of S of at most k elements
RECURSIVE SubsetsUpTo(_, _)
SubsetsUpTo(S, k) ==
    IF k = 0 THEN {{}}
    ELSE LET P == SubsetsUpTo(S, k - 1)
         IN  P \cup { U \cup {i} : U \in P, i \in S }

\* id in lower case, with up to MaxUpper letters in upper case, and all in upper case
CaseVariants(id) ==
    { UpperAt(id, U) : U \in SubsetsUpTo(DOMAIN id, MaxUpper) }
        \cup { UpperAt(id, DOMAIN id) }

\* Bytes that are no letters: tab, newline, space, hyphen, underscore
Separators == {9, 10, 32, 45, 95}

\* s with one byte dropped, with a separator put in anywhere (in front and
\* behind too), or with one byte replaced by a separator
Edits(s) ==
    { SubSeq(s, 1, i - 1) \o SubSeq(s, i + 1, Len(s)) : i \in DOMAIN s }
        \cup { SubSeq(s, 1, i) \o <<c>> \o SubSeq(s, i + 1, Len(s)) :
                    i \in 0..Len(s), c \in Separators }
        \cup { [s EXCEPT ![i] = c] : i \in DOMAIN s, c \in Separators }

\* "hahahaha", the input of the repository's own failing case
Hahahaha == Lit(<<"h", "a", "h", "a", "h", "a", "h", "a">>)

\* "ta\u{212A}esvalue": KELVIN SIGN, which Unicode (not ASCII) lower-casing
\* would turn into k, where "takesvalue" has its k
KelvinTakesValue ==
    Lit(<<"t", "a">>) \o <<226, 132, 170>> \o Lit(<<"e", "s", "v", "a", "l", "u", "e">>)

Inputs ==
    UNION { CaseVariants(id) : id \in Identifiers }
        \cup UNION { Edits(id) : id \in Identifiers }
        \cup UNION { Edits(UpperAt(id, DOMAIN id)) : id \in Identifiers }
        \cup { <<>>, Hahahaha, KelvinTakesValue, UnknownArgSetting }

InitParse ==
    /\ input \in Inputs
    /\ result = Pending
    /\ flags = ArgFlags_new
    /\ op = <<>>
    /\ ret = <<>>
    /\ lastw = NoWrites
    /\ n = 0

\* `input.parse::<ArgSettings>()`
Parse ==
    /\ result = Pending
    /\ result' = from_str(input)
    /\ UNCHANGED <<flags, op, ret, lastw, n, input>>

NextParse == Parse

SpecParse == InitParse /\ [][NextParse]_vars

----------------------------------------------------------------------------
(* Properties of the registry *)

DefaultSettings == {"EmptyValues", "ValueDelimiterNotSet"}

\* C1: a freshly constructed registry has exactly two settings set, EmptyValues
\* and ValueDelimiterNotSet; is_set is false for each of the other fourteen.
C1_FreshDefaults ==
    op = <<"new">> =>
        /\ \A s \in Settings : IsSet(flags, s) <=> s \in DefaultSettings
        /\ Cardinality({ s \in Settings : IsSet(flags, s) }) = 2
        /\ Cardinality({ s \in Settings : ~IsSet(flags, s) }) = 14

\* A registry constructed anew after calls on an earlier one
C1_Witness == op = <<"new">> /\ n = 2

\* The settings a registry holding bits reports as set
Held(bits) == { s \in Settings : IsSet(bits, s) }

\* C2: whatever the registry holds, set(s1) and unset(s1) leave is_set(s2)
\* as it was for every other setting s2.
C2_Independence ==
    LET held == Held(flags)
        \* a call that leaves the bits alone leaves every is_set alone
        Kept(bits, s1) == bits = flags \/ Held(bits) \ {s1} = held \ {s1}
    IN  \A s1 \in Settings :
            /\ Kept(Set(flags, s1), s1)
            /\ Kept(Unset(flags, s1), s1)

\* Required was set and EmptyValues unset, and every other setting is as new
C2_Witness ==
    /\ IsSet(flags, "Required")
    /\ ~IsSet(flags, "EmptyValues")
    /\ \A s \in Settings \ {"Required", "EmptyValues"} :
            IsSet(flags, s) <=> s \in DefaultSettings

\* C3: from every registry state and for every setting s, set(s) then
\* unset(s) leaves is_set(s) false, and unset(s) then set(s) leaves it true.
C3_SetUnsetInverse ==
    \A s \in Settings :
        /\ ~IsSet(Unset(Set(flags, s), s), s)
        /\ IsSet(Set(Unset(flags, s), s), s)

\* A registry on which set and unset have both acted: Hidden is set, which a
\* new registry has clear, and ValueDelimiterNotSet is clear, which it has set
C3_Witness == IsSet(flags, "Hidden") /\ ~IsSet(flags, "ValueDelimiterNotSet")

\* C4: from every registry state and for every setting s, set(s) twice leaves
\* the whole registry as set(s) once does, and unset(s) likewise; set of a
\* bit that is set, and unset of a bit that is clear, change nothing.
C4_Idempotence ==
    \A s \in Settings :
        /\ Set(Set(flags, s), s) = Set(flags, s)
        /\ Unset(Unset(flags, s), s) = Unset(flags, s)
        /\ IsSet(flags, s) => Set(flags, s) = flags
        /\ ~IsSet(flags, s) => Unset(flags, s) = flags

\* A registry holding exactly Last and the two defaults
C4_Witness == \A s \in Settings : IsSet(flags, s) <=> s \in DefaultSettings \cup {"Last"}

\* The bits after calling method m with setting s on a registry holding bits
C5_Apply(m, bits, s) ==
    CASE m = "new"    -> ArgFlags_new
      [] m = "set"    -> Set(bits, s)
      [] m = "unset"  -> Unset(bits, s)
      [] m = "is_set" -> bits

C5_Flip(bits, s) == IF IsSet(bits, s) THEN Unset(bits, s) ELSE Set(bits, s)

RECURSIVE PopCount(_)
PopCount(a) == IF a = 0 THEN 0 ELSE (a % 2) + PopCount(a \div 2)

\* The tables of C9: sixteen constants, each a single bit of the u16, no two
\* the same; the rows pair every variant of the enum, once, with a constant
\* of its own.
C9_Tables ==
    /\ Len(Flags) = Width
    /\ \A i \in DOMAIN Flags : \E k \in 0..(Width - 1) : Flags[i] = Pow2(k)
    /\ \A i, j \in DOMAIN Flags : i # j => Flags[i] # Flags[j]
    /\ \A i, j \in DOMAIN ArgSettings : i # j => ArgSettings[i] # ArgSettings[j]
    /\ Len(SettingsTable) = Len(ArgSettings)
    /\ \A v \in Settings :
            Cardinality({ i \in DOMAIN SettingsTable : SettingsTable[i][1] = v }) = 1
    /\ \A s \in Settings : \E i \in DOMAIN Flags : FlagOf(s) = Flags[i]
    /\ \A s1, s2 \in Settings : s1 # s2 => FlagOf(s1) # FlagOf(s2)

\* C9: the bit assignment is a bijection without aliasing (the tables
\* above), so a registry holds exactly one bit for each setting that is set.
C9_BitBijection ==
    /\ C9_Tables
    /\ PopCount(flags) = Cardinality(Held(flags))
    /\ flags \in 0..(Modulus - 1)

\* A registry with every setting set
C9_Witness == \A s \in Settings : IsSet(flags, s)

\* C10: after any sequence of calls on a new registry, is_set(s) is true iff
\* the most recent set/unset of s was a set, or there was none and s is one
\* of the two defaults; an is_set call returns just that and changes nothing.
C10_LastWriterWins ==
    /\ \A s \in Settings :
            IsSet(flags, s) <=>
                \/ lastw[s] = "set"
                \/ lastw[s] = "none" /\ s \in DefaultSettings
    /\ op[1] = "is_set" =>
            ret = << \/ lastw[op[2]] = "set"
                     \/ lastw[op[2]] = "none" /\ op[2] \in DefaultSettings >>

\* new(); set(Required); set(Multiple); unset(EmptyValues), in either order of
\* the first two, with the five values the scenario expects
C10_Witness ==
    /\ n = 3
    /\ op = <<"unset", "EmptyValues">>
    /\ lastw = [s \in Settings |->
                    CASE s \in {"Required", "Multiple"} -> "set"
                      [] s = "EmptyValues" -> "unset"
                      [] OTHER -> "none"]
    /\ IsSet(flags, "Required")
    /\ IsSet(flags, "Multiple")
    /\ ~IsSet(flags, "EmptyValues")
    /\ IsSet(flags, "ValueDelimiterNotSet")
    /\ ~IsSet(flags, "Hidden")

----------------------------------------------------------------------------
(* Properties of the decoder *)

\* x is id (lower case) with any of its letters in upper case
IsCaseVariant(x, id) ==
    /\ Len(x) = Len(id)
    /\ \A i \in DOMAIN id : x[i] = id[i] \/ x[i] = id[i] - 32

\* s occurs in e
Carries(e, s) ==
    \E k \in 0..(Len(e) - Len(s)) : SubSeq(e, k + 1, k + Len(s)) = s

\* C6: each of the sixteen canonical identifiers, the two internal ones
\* included, and every ASCII case variant of it parses to the setting of
\* that name.
C6_RoundTrip ==
    result # Pending =>
        \A i \in DOMAIN CanonicalIdentifiers :
            IsCaseVariant(input, CanonicalIdentifiers[i][1]) =>
                result = Ok(CanonicalIdentifiers[i][2])

\* "REQUIREDUNLESSALL", an internal setting in upper case, parsed
C6_Witness ==
    /\ result = Ok("RequiredUnlessAll")
    /\ \E id \in Identifiers : input = UpperAt(id, DOMAIN id)

C8_ExactlySixteen ==
    result # Pending =>
        /\ result.kind \in {"Ok", "Err"}
        /\ result.kind = "Ok" <=> \E id \in Identifiers : IsCaseVariant(input, id)
        /\ result.kind = "Err" <=> ~\E id \in Identifiers : IsCaseVariant(input, id)

\* " required", an identifier behind a space, was refused
C8_Witness ==
    /\ result.kind = "Err"
    /\ Len(input) > 1
    /\ input[1] = 32
    /\ Tail(input) \in Identifiers

====
